---- MODULE Spec2Model ----
(***************************************************************************)
(* WordDecode: the SM-2 spaced-repetition scheduler (services/sm2Algorithm *)
(* .ts), the vocabulary_reviews data service (services/dataService.ts) and *)
(* the session builder of the flashcard review component.                  *)
(*                                                                         *)
(* Numbers.  The ease factor is a JavaScript double that is stored in a    *)
(* REAL column and read back as its shortest decimal, so every value the   *)
(* scheduler reads is a whole number of hundredths.  The model keeps the   *)
(* ease factor in hundredths (2.5 is 250, 0.1 is 10, 0.08 is 8, 0.02 is 2) *)
(* and an interval * easeFactor product in hundredths of a day.  Dates are *)
(* day numbers: every comparison the code makes is at day granularity.     *)
(***************************************************************************)
EXTENDS Integers, Sequences, FiniteSets, TLC

(* ------------------------------ bounds --------------------------------- *)

\* Cards the vocabulary_reviews table can hold.
NumCards == 2
\* Days the clock can advance.
MaxDay == 2
\* Graded updates in one behaviour of Spec (all cards together).
MaxUpdates == 2
\* Graded updates of the card in one behaviour of SpecCard.
MaxReviews == 5
\* Largest session size offered (the component offers 5..30 cards against
\* pools of hundreds; the model offers 1..MaxSessionSize against NumCards).
MaxSessionSize == 2
\* Longest list handed to sortByReviewPriority.
MaxSortLen == 3
\* Longest interval, in days, handed to getIntervalDescription.
MaxInterval == 740
\* Failures (again) of the card in one behaviour of SpecLive.
MaxLapses == 2
\* Successes in a row followed in one behaviour of SpecLive.
MaxStreak == 7

(* ------------------------- sm2Algorithm.ts ----------------------------- *)

MIN_EASE_FACTOR == 130
DEFAULT_EASE_FACTOR == 250
MASTERY_INTERVAL_THRESHOLD == 21

\* The value of a number that is not a number.  ToNumber(undefined) is NaN,
\* and every use the scheduler makes of a quality is numeric.
NaN == -1
Undefined == NaN
\* lastReviewDate of a card that was never answered.
NoDate == -1

SimpleQuality == {"again", "hard", "good", "easy"}
\* What can arrive where the boundary accepts free-form input.
FreeFormQuality == SimpleQuality \cup {"medium"}

\* a < b, a >= b on doubles: false as soon as one side is NaN.
JsLt(a, b) == a # NaN /\ b # NaN /\ a < b
JsGe(a, b) == a # NaN /\ b # NaN /\ a >= b

\* Mutant: the four grades are spread evenly over the scale (hard is 2).
simpleToSM2Quality_Dense(simple) ==
    CASE simple = "again" -> 1
      [] simple = "hard" -> 2
      [] simple = "good" -> 4
      [] simple = "easy" -> 5
      [] OTHER -> Undefined

\* The switch has no default: any other value falls out of the function.
simpleToSM2Quality(simple) ==
    CASE simple = "again" -> 1
      [] simple = "hard" -> 3
      [] simple = "good" -> 4
      [] simple = "easy" -> 5
      [] OTHER -> Undefined

\* Mutant: the new ease factor is returned without the floor.
calculateNewEaseFactor_NoFloor(currentEF, quality) ==
    IF currentEF = NaN \/ quality = NaN
    THEN NaN
    ELSE currentEF + (10 - (5 - quality) * (8 + (5 - quality) * 2))

\* Mutant: the quadratic term of the SM-2 formula is dropped.
calculateNewEaseFactor_Linear(currentEF, quality) ==
    LET newEF == IF currentEF = NaN \/ quality = NaN
                 THEN NaN
                 ELSE currentEF + (10 - (5 - quality) * 8)
    IN  IF newEF = NaN THEN NaN
        ELSE IF newEF < MIN_EASE_FACTOR THEN MIN_EASE_FACTOR ELSE newEF

\* EF' = EF + (0.1 - (5 - q) * (0.08 + (5 - q) * 0.02)), then Math.max with
\* the floor (Math.max of a NaN is NaN).
calculateNewEaseFactor(currentEF, quality) ==
    LET newEF == IF currentEF = NaN \/ quality = NaN
                 THEN NaN
                 ELSE currentEF + (10 - (5 - quality) * (8 + (5 - quality) * 2))
    IN  IF newEF = NaN THEN NaN
        ELSE IF newEF < MIN_EASE_FACTOR THEN MIN_EASE_FACTOR ELSE newEF

\* Math.round(currentInterval * easeFactor): floor(x + 0.5), on a product
\* held in hundredths.
MathRoundProduct(currentInterval, easeFactor) ==
    IF currentInterval = NaN \/ easeFactor = NaN
    THEN NaN
    ELSE (currentInterval * easeFactor + 50) \div 100

\* Mutant: the second successful review has no branch of its own.
calculateNextInterval_NoSecond(currentInterval, repetitions, easeFactor, quality) ==
    IF JsLt(quality, 3) THEN 1
    ELSE IF repetitions = 0 THEN 1
    ELSE MathRoundProduct(currentInterval, easeFactor)

\* Mutant: a later successful review keeps the interval it had.
calculateNextInterval_NoGrowth(currentInterval, repetitions, easeFactor, quality) ==
    IF JsLt(quality, 3) THEN 1
    ELSE IF repetitions = 0 THEN 1
    ELSE IF repetitions = 1 THEN 6
    ELSE currentInterval

calculateNextInterval(currentInterval, repetitions, easeFactor, quality) ==
    IF JsLt(quality, 3) THEN 1
    ELSE IF repetitions = 0 THEN 1
    ELSE IF repetitions = 1 THEN 6
    ELSE MathRoundProduct(currentInterval, easeFactor)

\* Mutant: setDate(intervalDays) in place of setDate(getDate() + intervalDays);
\* day 0 is the first of the month.
calculateNextReviewDate_SetDate(today, intervalDays) ==
    IF intervalDays = NaN THEN NaN ELSE intervalDays

\* now + intervalDays, at the start of that day; an interval that is NaN
\* gives an Invalid Date.
calculateNextReviewDate(today, intervalDays) ==
    IF intervalDays = NaN THEN NaN ELSE today + intervalDays

\* Mutant: a quality of 3 (hard) is taken for a failure.
calculateNextReview_HardFails(currentReview, quality, today) ==
    LET newEaseFactor == calculateNewEaseFactor(currentReview.easeFactor, quality)
        newRepetitions == IF JsLt(quality, 4) THEN 0
                          ELSE currentReview.repetitions + 1
        newInterval == IF JsLt(quality, 4) THEN 1
                       ELSE calculateNextInterval(currentReview.interval,
                                currentReview.repetitions, newEaseFactor, quality)
    IN  [easeFactor |-> newEaseFactor,
         interval |-> newInterval,
         repetitions |-> newRepetitions,
         nextReviewDate |-> calculateNextReviewDate(today, newInterval),
         isMastered |-> JsGe(newInterval, MASTERY_INTERVAL_THRESHOLD)]

\* Mutant: the interval is computed from the stored (pre-update) ease factor.
calculateNextReview_StoredEase(currentReview, quality, today) ==
    LET newEaseFactor == calculateNewEaseFactor(currentReview.easeFactor, quality)
        newRepetitions == IF JsLt(quality, 3) THEN 0
                          ELSE currentReview.repetitions + 1
        newInterval == IF JsLt(quality, 3) THEN 1
                       ELSE calculateNextInterval(currentReview.interval,
                                currentReview.repetitions,
                                currentReview.easeFactor, quality)
    IN  [easeFactor |-> newEaseFactor,
         interval |-> newInterval,
         repetitions |-> newRepetitions,
         nextReviewDate |-> calculateNextReviewDate(today, newInterval),
         isMastered |-> JsGe(newInterval, MASTERY_INTERVAL_THRESHOLD)]

\* Mutant: mastery needs an interval above the threshold, not at it.
calculateNextReview_AboveThreshold(currentReview, quality, today) ==
    LET newEaseFactor == calculateNewEaseFactor(currentReview.easeFactor, quality)
        newRepetitions == IF JsLt(quality, 3) THEN 0
                          ELSE currentReview.repetitions + 1
        newInterval == IF JsLt(quality, 3) THEN 1
                       ELSE calculateNextInterval(currentReview.interval,
                                currentReview.repetitions, newEaseFactor, quality)
    IN  [easeFactor |-> newEaseFactor,
         interval |-> newInterval,
         repetitions |-> newRepetitions,
         nextReviewDate |-> calculateNextReviewDate(today, newInterval),
         isMastered |-> JsGe(newInterval, MASTERY_INTERVAL_THRESHOLD + 1)]

calculateNextReview(currentReview, quality, today) ==
    LET newEaseFactor == calculateNewEaseFactor(currentReview.easeFactor, quality)
        newRepetitions == IF JsLt(quality, 3) THEN 0
                          ELSE currentReview.repetitions + 1
        newInterval == IF JsLt(quality, 3) THEN 1
                       ELSE calculateNextInterval(currentReview.interval,
                                currentReview.repetitions, newEaseFactor, quality)
    IN  [easeFactor |-> newEaseFactor,
         interval |-> newInterval,
         repetitions |-> newRepetitions,
         nextReviewDate |-> calculateNextReviewDate(today, newInterval),
         isMastered |-> JsGe(newInterval, MASTERY_INTERVAL_THRESHOLD)]

createNewReview(id, today) ==
    [id |-> id, term |-> id, definition |-> id,
     easeFactor |-> DEFAULT_EASE_FACTOR,
     interval |-> 0,
     repetitions |-> 0,
     nextReviewDate |-> today,
     lastReviewDate |-> NoDate,
     isSuspended |-> FALSE,
     isMastered |-> FALSE,
     correctCount |-> 0,
     incorrectCount |-> 0,
     createdAt |-> today]

\* Mutant: a card is new as soon as its repetitions are 0.
isNewCard_RepetitionsOnly(review) ==
    review.repetitions = 0

\* repetitions === 0 && !lastReviewDate
isNewCard(review) ==
    review.repetitions = 0 /\ review.lastReviewDate = NoDate

\* The comparator of sortByReviewPriority.  Both dates are cut to the start
\* of their day (setHours(0, 0, 0, 0)), which leaves the day number and
\* drops nextReviewHour, the time of day a list entry may carry.
ComparePriority(a, b) ==
    LET aDate == a.nextReviewDate
        bDate == b.nextReviewDate
        aIsNew == isNewCard(a)
        bIsNew == isNewCard(b)
    IN  IF aIsNew /\ ~bIsNew THEN 1
        ELSE IF ~aIsNew /\ bIsNew THEN -1
        ELSE IF aDate - bDate # 0 THEN aDate - bDate
        ELSE a.easeFactor - b.easeFactor

\* Array.prototype.sort is stable: an entry goes behind every entry that
\* does not compare greater than it.
RECURSIVE InsertByPriority(_, _)
InsertByPriority(sorted, review) ==
    IF sorted = <<>> THEN <<review>>
    ELSE IF ComparePriority(Head(sorted), review) <= 0
         THEN <<Head(sorted)>> \o InsertByPriority(Tail(sorted), review)
         ELSE <<review>> \o sorted

\* [...reviews].sort(comparator): a sorted copy.
RECURSIVE sortByReviewPriority(_)
sortByReviewPriority(list) ==
    IF list = <<>> THEN <<>>
    ELSE InsertByPriority(sortByReviewPriority(SubSeq(list, 1, Len(list) - 1)),
                          list[Len(list)])

\* Math.round(n / d) for whole n >= 0 and d > 0: floor(n / d + 0.5).
MathRoundQuotient(n, d) == (2 * n + d) \div (2 * d)

\* Mutant: the counts are cut, not rounded.
getIntervalDescription_Floor(intervalDays) ==
    IF intervalDays = NaN THEN [count |-> NaN, unit |-> "years"]
    ELSE IF intervalDays = 0 THEN [count |-> 0, unit |-> "New"]
    ELSE IF intervalDays = 1 THEN [count |-> 1, unit |-> "day"]
    ELSE IF intervalDays < 7 THEN [count |-> intervalDays, unit |-> "days"]
    ELSE IF intervalDays < 30
         THEN LET weeks == intervalDays \div 7
              IN  IF weeks = 1 THEN [count |-> 1, unit |-> "week"]
                  ELSE [count |-> weeks, unit |-> "weeks"]
    ELSE IF intervalDays < 365
         THEN LET months == intervalDays \div 30
              IN  IF months = 1 THEN [count |-> 1, unit |-> "month"]
                  ELSE [count |-> months, unit |-> "months"]
    ELSE LET years == intervalDays \div 365
         IN  IF years = 1 THEN [count |-> 1, unit |-> "year"]
             ELSE [count |-> years, unit |-> "years"]

\* The text is held as the number and the word it is made of: "2 weeks" is
\* [count |-> 2, unit |-> "weeks"], "New" is [count |-> 0, unit |-> "New"].
\* A NaN fails every comparison and comes out as "NaN years".
getIntervalDescription(intervalDays) ==
    IF intervalDays = NaN THEN [count |-> NaN, unit |-> "years"]
    ELSE IF intervalDays = 0 THEN [count |-> 0, unit |-> "New"]
    ELSE IF intervalDays = 1 THEN [count |-> 1, unit |-> "day"]
    ELSE IF intervalDays < 7 THEN [count |-> intervalDays, unit |-> "days"]
    ELSE IF intervalDays < 30
         THEN LET weeks == MathRoundQuotient(intervalDays, 7)
              IN  IF weeks = 1 THEN [count |-> 1, unit |-> "week"]
                  ELSE [count |-> weeks, unit |-> "weeks"]
    ELSE IF intervalDays < 365
         THEN LET months == MathRoundQuotient(intervalDays, 30)
              IN  IF months = 1 THEN [count |-> 1, unit |-> "month"]
                  ELSE [count |-> months, unit |-> "months"]
    ELSE LET years == MathRoundQuotient(intervalDays, 365)
         IN  IF years = 1 THEN [count |-> 1, unit |-> "year"]
             ELSE [count |-> years, unit |-> "years"]

\* Mutant: every grade is shown the interval the card has now.
previewIntervals_CurrentInterval(currentReview, today) ==
    [simple \in {"again", "hard", "good", "easy"} |->
        getIntervalDescription(currentReview.interval)]

\* One entry for each of 'again', 'hard', 'good', 'easy'.
previewIntervals(currentReview, today) ==
    [simple \in {"again", "hard", "good", "easy"} |->
        LET sm2Quality == simpleToSM2Quality(simple)
        IN  getIntervalDescription(
                calculateNextReview(currentReview, sm2Quality, today).interval)]

(* ------------------------------ state ---------------------------------- *)

VARIABLES
    reviews,        \* the vocabulary_reviews rows of the user, by id
    now,            \* the current day
    last,           \* the last data-service call: its arguments and result
    reviewQueue,    \* the component's reviewQueue (the rows as fetched)
    currentIndex,
    isReviewing,
    showAnswer,
    showResults,
    inFlight        \* the async calls that await the data service, in the
                    \* order they were issued

vars == <<reviews, now, last, reviewQueue, currentIndex, isReviewing,
          showAnswer, showResults, inFlight>>

session == <<reviewQueue, currentIndex, isReviewing, showAnswer, showResults,
             inFlight>>

CardIds == 1..NumCards

Reviewed(id) == reviews[id].correctCount + reviews[id].incorrectCount

RECURSIVE SumReviewed(_)
SumReviewed(ids) ==
    IF ids = {} THEN 0
    ELSE LET id == CHOOSE x \in ids : TRUE
         IN  Reviewed(id) + SumReviewed(ids \ {id})

(* ------------------------- dataService.ts ------------------------------ *)

\* last when the last step was not a call the model records.
NoCall == [op |-> "none"]

\* Mutant: an answer counts as correct from quality 4 on.
updateReviewAfterAnswer_HardIncorrect(id, quality) ==
    LET currentReview == reviews[id]
        sm2Quality == simpleToSM2Quality(quality)
        result == calculateNextReview(currentReview, sm2Quality, now)
        isCorrect == JsGe(sm2Quality, 4)
        newCorrectCount == IF isCorrect THEN currentReview.correctCount + 1
                           ELSE currentReview.correctCount
        newIncorrectCount == IF ~isCorrect THEN currentReview.incorrectCount + 1
                             ELSE currentReview.incorrectCount
        thrown == result.nextReviewDate = NaN
    IN  /\ id \in DOMAIN reviews
        /\ reviews' = IF thrown THEN reviews
                      ELSE [reviews EXCEPT ![id] =
                              [@ EXCEPT !.easeFactor = result.easeFactor,
                                        !.interval = result.interval,
                                        !.repetitions = result.repetitions,
                                        !.nextReviewDate = result.nextReviewDate,
                                        !.lastReviewDate = now,
                                        !.isMastered = result.isMastered,
                                        !.correctCount = newCorrectCount,
                                        !.incorrectCount = newIncorrectCount]]
        /\ last' = [op |-> "updateReviewAfterAnswer", id |-> id,
                    quality |-> quality, sm2Quality |-> sm2Quality,
                    before |-> currentReview, result |-> result,
                    error |-> IF thrown THEN "RangeError" ELSE "none"]
        /\ UNCHANGED <<now, session>>

\* updateReviewAfterAnswer: read the row, map the grade, compute the SM-2
\* values and the counters, write them back.  nextReviewDate.toISOString()
\* throws a RangeError on an Invalid Date, before anything is written.
updateReviewAfterAnswer(id, quality) ==
    LET currentReview == reviews[id]
        sm2Quality == simpleToSM2Quality(quality)
        result == calculateNextReview(currentReview, sm2Quality, now)
        isCorrect == JsGe(sm2Quality, 3)
        newCorrectCount == IF isCorrect THEN currentReview.correctCount + 1
                           ELSE currentReview.correctCount
        newIncorrectCount == IF ~isCorrect THEN currentReview.incorrectCount + 1
                             ELSE currentReview.incorrectCount
        thrown == result.nextReviewDate = NaN
    IN  /\ id \in DOMAIN reviews
        /\ reviews' = IF thrown THEN reviews
                      ELSE [reviews EXCEPT ![id] =
                              [@ EXCEPT !.easeFactor = result.easeFactor,
                                        !.interval = result.interval,
                                        !.repetitions = result.repetitions,
                                        !.nextReviewDate = result.nextReviewDate,
                                        !.lastReviewDate = now,
                                        !.isMastered = result.isMastered,
                                        !.correctCount = newCorrectCount,
                                        !.incorrectCount = newIncorrectCount]]
        /\ last' = [op |-> "updateReviewAfterAnswer", id |-> id,
                    quality |-> quality, sm2Quality |-> sm2Quality,
                    before |-> currentReview, result |-> result,
                    error |-> IF thrown THEN "RangeError" ELSE "none"]
        /\ UNCHANGED <<now, session>>

\* Mutant: suspending a word also sends it back to the start (repetitions 0).
suspendWord_Reset(id, suspended) ==
    /\ id \in DOMAIN reviews
    /\ reviews' = [reviews EXCEPT ![id].isSuspended = suspended,
                                  ![id].repetitions = 0]
    /\ last' = NoCall
    /\ UNCHANGED <<now, session>>

\* suspendWord: the update sets is_suspended and nothing else.
suspendWord(id, suspended) ==
    /\ id \in DOMAIN reviews
    /\ reviews' = [reviews EXCEPT ![id].isSuspended = suspended]
    /\ last' = NoCall
    /\ UNCHANGED <<now, session>>

\* The vocabulary sync inserts a term the table does not hold, with the
\* values of createNewReview, dated now.  Ids are handed out in order.
insertNewReview(id) ==
    /\ id \notin DOMAIN reviews
    /\ id = Cardinality(DOMAIN reviews) + 1
    /\ reviews' = reviews @@ (id :> createNewReview(id, now))
    /\ last' = NoCall
    /\ UNCHANGED <<now, session>>

Min(a, b) == IF a < b THEN a ELSE b

\* .order(column, { ascending: true }): every arrangement of the ids of S in
\* ascending order of key (the column's value for each id); rows with equal
\* keys come in any order.
OrderedBy(S, key) ==
    {s \in [1..Cardinality(S) -> S] :
        /\ \A i, j \in DOMAIN s : i # j => s[i] # s[j]
        /\ \A i, j \in DOMAIN s : i < j => key[s[i]] <= key[s[j]]}

\* if (limit) query = query.limit(limit): a limit of 0 (or none) is no limit.
Limit(rows, limit) ==
    IF limit = 0 THEN rows ELSE SubSeq(rows, 1, Min(limit, Len(rows)))

\* Mutant: the due filter without .gt('repetitions', 0).
IsDue_AnyRepetitions(row, today) ==
    /\ row.isSuspended = FALSE
    /\ row.nextReviewDate <= today

\* The filters of fetchDueReviews; today is the end of the current day.
IsDue(row, today) ==
    /\ row.isSuspended = FALSE
    /\ row.nextReviewDate <= today
    /\ row.repetitions > 0

\* The filters of fetchNewWordsForReview.
IsNewWord(row) ==
    /\ row.isSuspended = FALSE
    /\ row.repetitions = 0

DueIds == {id \in DOMAIN reviews : IsDue(reviews[id], now)}

NewIds == {id \in DOMAIN reviews : IsNewWord(reviews[id])}

\* The results fetchDueReviews(userId, limit) can return.
fetchDueReviews(limit) ==
    {Limit([i \in DOMAIN s |-> reviews[s[i]]], limit) :
        s \in OrderedBy(DueIds,
                         [id \in DueIds |-> reviews[id].nextReviewDate])}

\* The results fetchNewWordsForReview(userId, limit) can return.
fetchNewWordsForReview(limit) ==
    {Limit([i \in DOMAIN s |-> reviews[s[i]]], limit) :
        s \in OrderedBy(NewIds, [id \in NewIds |-> reviews[id].createdAt])}

\* Mutant: learningWords counts every answered card that is not suspended,
\* mastered or not.
getReviewStats_LearningAll ==
    LET Count(S) == Cardinality(S)
        rows == DOMAIN reviews
        totalWords == Count(rows)
        suspendedWords == Count({id \in rows : reviews[id].isSuspended})
        masteredWords == Count({id \in rows : reviews[id].isMastered
                                              /\ ~reviews[id].isSuspended})
        newWords == Count({id \in rows : reviews[id].repetitions = 0
                                         /\ ~reviews[id].isSuspended})
        learningWords == Count({id \in rows : reviews[id].repetitions > 0
                                              /\ ~reviews[id].isSuspended})
        dueToday == Count({id \in rows : /\ ~reviews[id].isSuspended
                                         /\ reviews[id].repetitions # 0
                                         /\ reviews[id].nextReviewDate <= now})
        activeWords == totalWords - suspendedWords
    IN  [totalWords |-> totalWords, masteredWords |-> masteredWords,
         learningWords |-> learningWords, newWords |-> newWords,
         dueToday |-> dueToday, suspendedWords |-> suspendedWords,
         masteryPercentage |-> IF activeWords > 0
                               THEN <<masteredWords * 100, activeWords>>
                               ELSE <<0, 1>>]

\* getReviewStats(userId) over the rows of the user; masteryPercentage is
\* the quotient (masteredWords * 100) / activeWords, kept as the pair of
\* its numerator and denominator.
getReviewStats ==
    LET Count(S) == Cardinality(S)
        rows == DOMAIN reviews
        totalWords == Count(rows)
        suspendedWords == Count({id \in rows : reviews[id].isSuspended})
        masteredWords == Count({id \in rows : reviews[id].isMastered
                                              /\ ~reviews[id].isSuspended})
        newWords == Count({id \in rows : reviews[id].repetitions = 0
                                         /\ ~reviews[id].isSuspended})
        learningWords == Count({id \in rows : reviews[id].repetitions > 0
                                              /\ ~reviews[id].isMastered
                                              /\ ~reviews[id].isSuspended})
        dueToday == Count({id \in rows : /\ ~reviews[id].isSuspended
                                         /\ reviews[id].repetitions # 0
                                         /\ reviews[id].nextReviewDate <= now})
        activeWords == totalWords - suspendedWords
    IN  [totalWords |-> totalWords, masteredWords |-> masteredWords,
         learningWords |-> learningWords, newWords |-> newWords,
         dueToday |-> dueToday, suspendedWords |-> suspendedWords,
         masteryPercentage |-> IF activeWords > 0
                               THEN <<masteredWords * 100, activeWords>>
                               ELSE <<0, 1>>]

(* ----------------------- FlashcardReview component --------------------- *)

\* cards.sort(() => Math.random() - 0.5): some arrangement of the cards.
Shuffles(cards) ==
    {[i \in DOMAIN cards |-> cards[p[i]]] :
        p \in {q \in [DOMAIN cards -> DOMAIN cards] :
                 \A i, j \in DOMAIN cards : i # j => q[i] # q[j]}}

\* What one run of startSession did: its settings, the cards it had after
\* the included pools (accumulated), what the two backfill fetches added,
\* the set before the shuffle, the cards after the slice, and whether it
\* raised the 'No cards available' alert.
SessionCall(size, incDue, incNew, accumulated, addedDue, addedNew, cards, alerted) ==
    [op |-> "startSession", sessionSize |-> size,
     includeDue |-> incDue, includeNew |-> incNew,
     accumulated |-> accumulated, addedDue |-> addedDue, addedNew |-> addedNew,
     combined |-> accumulated \o addedDue \o addedNew,
     cards |-> cards, alerted |-> alerted]

\* Mutant: the alert is raised but the return after it is missing.
SessionStarted_NoReturn(size, incDue, incNew, accumulated, addedDue, addedNew, cards) ==
    /\ last' = SessionCall(size, incDue, incNew, accumulated,
                           addedDue, addedNew, cards, Len(cards) = 0)
    /\ reviewQueue' = cards
    /\ currentIndex' = 0
    /\ showAnswer' = FALSE
    /\ showResults' = FALSE
    /\ isReviewing' = TRUE
    /\ UNCHANGED <<reviews, now>>

\* What startSession does once its cards are chosen: alert and return on an
\* empty set, else load the queue and enter the review.  sessionSize,
\* includeDue and includeNew are the component's settings when Start is hit.
SessionStarted(size, incDue, incNew, accumulated, addedDue, addedNew, cards) ==
    /\ IF Len(cards) = 0
       THEN /\ last' = SessionCall(size, incDue, incNew, accumulated,
                                   addedDue, addedNew, cards, TRUE)
            /\ UNCHANGED <<reviewQueue, currentIndex, isReviewing,
                           showAnswer, showResults>>
       ELSE /\ last' = SessionCall(size, incDue, incNew, accumulated,
                                   addedDue, addedNew, cards, FALSE)
            /\ reviewQueue' = cards
            /\ currentIndex' = 0
            /\ showAnswer' = FALSE
            /\ showResults' = FALSE
            /\ isReviewing' = TRUE
    /\ UNCHANGED <<reviews, now>>

\* Mutant: the session is built from the included pools only (no step 3).
startSession_NoBackfill(size, incDue, incNew) ==
    \E due1 \in (IF incDue THEN fetchDueReviews(size) ELSE {<<>>}) :
    \E new1 \in (IF incNew /\ Len(due1) < size
                 THEN fetchNewWordsForReview(size - Len(due1)) ELSE {<<>>}) :
    \E shuffled \in Shuffles(due1 \o new1) :
        /\ SessionStarted(size, incDue, incNew, due1 \o new1, <<>>, <<>>,
                          SubSeq(shuffled, 1, Min(size, Len(shuffled))))
        /\ UNCHANGED inFlight

\* Mutant: the new pool is fetched whatever the due fetch returned, with the
\* whole session size as its limit.
startSession_NoPriority(size, incDue, incNew) ==
    \E due1 \in (IF incDue THEN fetchDueReviews(size) ELSE {<<>>}) :
    \E new1 \in (IF incNew THEN fetchNewWordsForReview(size) ELSE {<<>>}) :
    LET cards2 == due1 \o new1
        short == Len(cards2) < size
    IN
    \E due2 \in (IF short /\ ~incDue
                 THEN fetchDueReviews(size - Len(cards2)) ELSE {<<>>}) :
    \E new2 \in (IF short /\ ~incNew
                 THEN fetchNewWordsForReview(size - Len(cards2 \o due2))
                 ELSE {<<>>}) :
    \E shuffled \in Shuffles(cards2 \o due2 \o new2) :
        /\ SessionStarted(size, incDue, incNew, cards2, due2, new2,
                          SubSeq(shuffled, 1, Min(size, Len(shuffled))))
        /\ UNCHANGED inFlight

\* startSession with the component's sessionSize, includeDue, includeNew.
startSession(size, incDue, incNew) ==
    \E due1 \in (IF incDue THEN fetchDueReviews(size) ELSE {<<>>}) :
    \E new1 \in (IF incNew /\ Len(due1) < size
                 THEN fetchNewWordsForReview(size - Len(due1)) ELSE {<<>>}) :
    LET cards2 == due1 \o new1
        short == Len(cards2) < size
    IN
    \E due2 \in (IF short /\ ~incDue
                 THEN fetchDueReviews(size - Len(cards2)) ELSE {<<>>}) :
    \E new2 \in (IF short /\ ~incNew
                 THEN fetchNewWordsForReview(size - Len(cards2 \o due2))
                 ELSE {<<>>}) :
    LET combined == cards2 \o due2 \o new2
    IN
    \E shuffled \in Shuffles(combined) :
        /\ SessionStarted(size, incDue, incNew, cards2, due2, new2,
                          SubSeq(shuffled, 1, Min(size, Len(shuffled))))
        /\ UNCHANGED inFlight

closeSession ==
    /\ isReviewing
    /\ isReviewing' = FALSE
    /\ showResults' = FALSE
    /\ reviewQueue' = <<>>
    /\ last' = NoCall
    /\ UNCHANGED <<reviews, now, currentIndex, showAnswer, inFlight>>

(* ------------------------- specifications ------------------------------ *)

\* An empty table on day 0, the component on its dashboard.  Spec follows
\* the table between the sessions of the component: while it reviews, the
\* table changes through the component's own handlers only.
Init ==
    /\ reviews = <<>>
    /\ now = 0
    /\ last = NoCall
    /\ reviewQueue = <<>>
    /\ currentIndex = 0
    /\ isReviewing = FALSE
    /\ showAnswer = FALSE
    /\ showResults = FALSE
    /\ inFlight = <<>>

CreateReview ==
    \E id \in CardIds :
        /\ ~isReviewing
        /\ insertNewReview(id)

GradeReview ==
    \E id \in CardIds, quality \in SimpleQuality :
        /\ ~isReviewing
        /\ SumReviewed(DOMAIN reviews) < MaxUpdates
        /\ updateReviewAfterAnswer(id, quality)

SuspendReview ==
    \E id \in CardIds, suspended \in BOOLEAN :
        /\ ~isReviewing
        /\ id \in DOMAIN reviews
        /\ reviews[id].isSuspended # suspended
        /\ suspendWord(id, suspended)

\* Midnight passes.
Tick ==
    /\ ~isReviewing
    /\ now < MaxDay
    /\ now' = now + 1
    /\ last' = NoCall
    /\ UNCHANGED <<reviews, session>>

\* The two pool queries, called on their own.
FetchDue ==
    \E limit \in 0..MaxSessionSize :
    \E result \in fetchDueReviews(limit) :
        /\ ~isReviewing
        /\ last' = [op |-> "fetchDueReviews", limit |-> limit, result |-> result]
        /\ UNCHANGED <<reviews, now, session>>

FetchNew ==
    \E limit \in 0..MaxSessionSize :
    \E result \in fetchNewWordsForReview(limit) :
        /\ ~isReviewing
        /\ last' = [op |-> "fetchNewWordsForReview", limit |-> limit,
                    result |-> result]
        /\ UNCHANGED <<reviews, now, session>>

\* The handler is followed for every configuration; the Start button that
\* calls it is shown on the dashboard only.
StartSession ==
    \E size \in 1..MaxSessionSize, incDue \in BOOLEAN, incNew \in BOOLEAN :
        /\ ~isReviewing
        /\ startSession(size, incDue, incNew)

CloseSession == closeSession

Next ==
    \/ CreateReview
    \/ GradeReview
    \/ SuspendReview
    \/ Tick
    \/ FetchDue
    \/ FetchNew
    \/ StartSession
    \/ CloseSession

Spec == Init /\ [][Next]_vars

\* One card, just created, graded again and again.
InitCard ==
    /\ reviews = (1 :> createNewReview(1, 0))
    /\ now = 0
    /\ last = NoCall
    /\ reviewQueue = <<>>
    /\ currentIndex = 0
    /\ isReviewing = FALSE
    /\ showAnswer = FALSE
    /\ showResults = FALSE
    /\ inFlight = <<>>

GradeCard ==
    \E quality \in SimpleQuality :
        /\ Reviewed(1) < MaxReviews
        /\ updateReviewAfterAnswer(1, quality)

NextCard == GradeCard

SpecCard == InitCard /\ [][NextCard]_vars

\* The boundary accepts free-form input: the same card, graded with whatever
\* string arrives.  JSON carries a NaN ease factor as null; the model follows
\* the row no further once one has been written.
GradeFreeForm ==
    \E quality \in FreeFormQuality :
        /\ Reviewed(1) < MaxReviews
        /\ reviews[1].easeFactor # NaN
        /\ updateReviewAfterAnswer(1, quality)

NextFreeForm == GradeFreeForm

SpecFreeForm == InitCard /\ [][NextFreeForm]_vars

\* One card, graded on any day.
NextClock ==
    \/ GradeCard
    \/ Tick

SpecClock == InitCard /\ [][NextClock]_vars

\* getIntervalPreviews: the component shows the previews of the card, from
\* its easeFactor, interval and repetitions.
PreviewCard ==
    /\ last' = [op |-> "previewIntervals", input |-> reviews[1],
                result |-> previewIntervals(
                    [easeFactor |-> reviews[1].easeFactor,
                     interval |-> reviews[1].interval,
                     repetitions |-> reviews[1].repetitions], now)]
    /\ UNCHANGED <<reviews, now, session>>

\* One card, previewed and graded in any order.
NextPreview ==
    \/ PreviewCard
    \/ GradeCard

SpecPreview == InitCard /\ [][NextPreview]_vars

\* The entries a list handed to sortByReviewPriority can hold: a card never
\* answered, a card answered and failed (repetitions 0, lastReviewDate set)
\* and a card with one success, each with a date, a time of day on that
\* date and an ease factor (the default one for a card never answered).
SortEntries ==
    UNION {{[createNewReview(0, 0) EXCEPT !.repetitions = k[1],
                                          !.lastReviewDate = k[2],
                                          !.nextReviewDate = d,
                                          !.easeFactor = e]
                @@ [nextReviewHour |-> h] :
               d \in 0..1, h \in {0, 12}, e \in k[3]} :
           k \in {<<0, NoDate, {DEFAULT_EASE_FACTOR}>>,
                  <<0, 0, {MIN_EASE_FACTOR, DEFAULT_EASE_FACTOR}>>,
                  <<1, 0, {MIN_EASE_FACTOR, DEFAULT_EASE_FACTOR}>>}}

\* A caller gathers a list of up to MaxSortLen entries (here in
\* reviewQueue), the id of an entry being its place, and has it sorted.
ListEntry ==
    \E entry \in SortEntries :
        /\ last.op = "none"
        /\ Len(reviewQueue) < MaxSortLen
        /\ reviewQueue' = Append(reviewQueue,
                                 [entry EXCEPT !.id = Len(reviewQueue) + 1])
        /\ UNCHANGED <<reviews, now, last, currentIndex, isReviewing,
                       showAnswer, showResults, inFlight>>

SortReviews ==
    /\ last.op = "none"
    /\ last' = [op |-> "sortByReviewPriority", input |-> reviewQueue,
                result |-> sortByReviewPriority(reviewQueue)]
    /\ UNCHANGED <<reviews, now, session>>

NextSort ==
    \/ ListEntry
    \/ SortReviews

SpecSort == Init /\ [][NextSort]_vars

\* The same, on any day: the dates of the entries lie before today, on it
\* or after it.
InitSortDay ==
    /\ reviews = <<>>
    /\ now \in 0..MaxDay
    /\ last = NoCall
    /\ reviewQueue = <<>>
    /\ currentIndex = 0
    /\ isReviewing = FALSE
    /\ showAnswer = FALSE
    /\ showResults = FALSE
    /\ inFlight = <<>>

SpecSortDay == InitSortDay /\ [][NextSort]_vars

\* getIntervalDescription, called with any whole number of days.
DescribeInterval ==
    \E intervalDays \in 0..MaxInterval :
        /\ last.op = "none"
        /\ last' = [op |-> "getIntervalDescription",
                    intervalDays |-> intervalDays,
                    result |-> getIntervalDescription(intervalDays)]
        /\ UNCHANGED <<reviews, now, session>>

NextDescribe == DescribeInterval

SpecDescribe == Init /\ [][NextDescribe]_vars

\* The suspend button on the card, and the settings' unsuspend.
SuspendCard ==
    \E suspended \in BOOLEAN : suspendWord(1, suspended)

\* One card, graded and suspended or unsuspended in any order.
NextToggle ==
    \/ GradeCard
    \/ SuspendCard

SpecToggle == InitCard /\ [][NextToggle]_vars

\* The card is failed: at most MaxLapses times over its life.
GradeAgain ==
    /\ reviews[1].incorrectCount < MaxLapses
    /\ updateReviewAfterAnswer(1, "again")

\* The card is recalled (hard, good or easy): followed for MaxStreak
\* successes in a row.
GradeSuccess ==
    \E quality \in {"hard", "good", "easy"} :
        /\ reviews[1].repetitions < MaxStreak
        /\ updateReviewAfterAnswer(1, quality)

NextLive ==
    \/ GradeAgain
    \/ GradeSuccess

\* The card keeps being reviewed, and from some review on every grade is a
\* success.
SpecLive == InitCard /\ [][NextLive]_vars /\ WF_vars(GradeSuccess)

\* startSession as it runs: every pool read is a request of its own, and the
\* table can change between two of them.  The run in progress is the entry
\* of inFlight: its settings, the read that comes next and what the reads so
\* far returned.
SessionRun(size, incDue, incNew, pc, due1, new1, due2, new2) ==
    [op |-> "startSession", sessionSize |-> size,
     includeDue |-> incDue, includeNew |-> incNew, pc |-> pc,
     due1 |-> due1, new1 |-> new1, due2 |-> due2, new2 |-> new2]

SessionRunning(pc) ==
    /\ Len(inFlight) = 1
    /\ inFlight[1].op = "startSession"
    /\ inFlight[1].pc = pc

\* One read of a run is over, or skipped: the run r moves on.
SessionReadDone(r) ==
    /\ inFlight' = <<r>>
    /\ last' = NoCall
    /\ UNCHANGED <<reviews, now, reviewQueue, currentIndex, isReviewing,
                   showAnswer, showResults>>

\* The Start button is hit.
SessionBegin ==
    \E size \in 1..MaxSessionSize, incDue \in BOOLEAN, incNew \in BOOLEAN :
        /\ ~isReviewing
        /\ inFlight = <<>>
        /\ SessionReadDone(SessionRun(size, incDue, incNew, "due",
                                      <<>>, <<>>, <<>>, <<>>))

\* if (includeDue) await fetchDueReviews(userId, sessionSize)
SessionReadDue ==
    /\ SessionRunning("due")
    /\ LET r == inFlight[1]
       IN  \E due1 \in (IF r.includeDue THEN fetchDueReviews(r.sessionSize)
                        ELSE {<<>>}) :
               SessionReadDone([r EXCEPT !.pc = "new", !.due1 = due1])

\* if (includeNew && cards.length < sessionSize) await fetchNewWordsForReview
SessionReadNew ==
    /\ SessionRunning("new")
    /\ LET r == inFlight[1]
       IN  \E new1 \in (IF r.includeNew /\ Len(r.due1) < r.sessionSize
                        THEN fetchNewWordsForReview(r.sessionSize - Len(r.due1))
                        ELSE {<<>>}) :
               SessionReadDone([r EXCEPT !.pc = "backfillDue", !.new1 = new1])

\* if (cards.length < sessionSize) if (!includeDue) await fetchDueReviews
SessionBackfillDue ==
    /\ SessionRunning("backfillDue")
    /\ LET r == inFlight[1]
           cards2 == r.due1 \o r.new1
       IN  \E due2 \in (IF Len(cards2) < r.sessionSize /\ ~r.includeDue
                        THEN fetchDueReviews(r.sessionSize - Len(cards2))
                        ELSE {<<>>}) :
               SessionReadDone([r EXCEPT !.pc = "backfillNew", !.due2 = due2])

\* ... if (!includeNew) await fetchNewWordsForReview
SessionBackfillNew ==
    /\ SessionRunning("backfillNew")
    /\ LET r == inFlight[1]
           cards2 == r.due1 \o r.new1
       IN  \E new2 \in (IF Len(cards2) < r.sessionSize /\ ~r.includeNew
                        THEN fetchNewWordsForReview(
                                 r.sessionSize - Len(cards2 \o r.due2))
                        ELSE {<<>>}) :
               SessionReadDone([r EXCEPT !.pc = "shuffle", !.new2 = new2])

\* The shuffle, the slice and the state updates that end the run.
SessionFinish ==
    /\ SessionRunning("shuffle")
    /\ LET r == inFlight[1]
           cards2 == r.due1 \o r.new1
       IN  \E shuffled \in Shuffles(cards2 \o r.due2 \o r.new2) :
               /\ SessionStarted(r.sessionSize, r.includeDue, r.includeNew,
                                 cards2, r.due2, r.new2,
                                 SubSeq(shuffled, 1,
                                        Min(r.sessionSize, Len(shuffled))))
               /\ inFlight' = <<>>

\* The table changes (creation, grades and suspends from another tab or
\* device, midnight) while a run of startSession is between two reads.
NextRace ==
    \/ CreateReview
    \/ GradeReview
    \/ SuspendReview
    \/ Tick
    \/ SessionBegin
    \/ SessionReadDue
    \/ SessionReadNew
    \/ SessionBackfillDue
    \/ SessionBackfillNew
    \/ SessionFinish
    \/ CloseSession

SpecRace == Init /\ [][NextRace]_vars

\* updateReviewAfterAnswer as it runs: the select and the update are two
\* requests, and the columns of the update are computed from the row that
\* the select returned.  A call between its two requests is an entry of
\* inFlight.
ReviewColumns(currentReview, quality, today) ==
    LET sm2Quality == simpleToSM2Quality(quality)
        result == calculateNextReview(currentReview, sm2Quality, today)
        isCorrect == JsGe(sm2Quality, 3)
    IN  [easeFactor |-> result.easeFactor,
         interval |-> result.interval,
         repetitions |-> result.repetitions,
         nextReviewDate |-> result.nextReviewDate,
         lastReviewDate |-> today,
         isMastered |-> result.isMastered,
         correctCount |-> IF isCorrect THEN currentReview.correctCount + 1
                          ELSE currentReview.correctCount,
         incorrectCount |-> IF ~isCorrect THEN currentReview.incorrectCount + 1
                            ELSE currentReview.incorrectCount]

\* .update(columns): the columns replace the row's, the others stay.
RowUpdate(row, columns) ==
    [f \in DOMAIN row |-> IF f \in DOMAIN columns THEN columns[f] ELSE row[f]]

\* The select of a call: up to two calls are followed at a time.
ReadReview ==
    \E quality \in SimpleQuality :
        /\ Len(inFlight) < 2
        /\ Reviewed(1) + Len(inFlight) < MaxReviews
        /\ inFlight' = Append(inFlight,
                              [op |-> "updateReviewAfterAnswer", id |-> 1,
                               quality |-> quality, currentReview |-> reviews[1]])
        /\ last' = NoCall
        /\ UNCHANGED <<reviews, now, reviewQueue, currentIndex, isReviewing,
                       showAnswer, showResults>>

\* The update of a call, whichever of the calls gets there first; stored is
\* the row as the update finds it.
WriteReview ==
    \E k \in DOMAIN inFlight :
        LET call == inFlight[k]
            columns == ReviewColumns(call.currentReview, call.quality, now)
        IN  /\ reviews' = [reviews EXCEPT
                              ![call.id] = RowUpdate(@, columns)]
            /\ inFlight' = SubSeq(inFlight, 1, k - 1)
                               \o SubSeq(inFlight, k + 1, Len(inFlight))
            /\ last' = [op |-> "updateReviewAfterAnswer", id |-> call.id,
                        quality |-> call.quality,
                        sm2Quality |-> simpleToSM2Quality(call.quality),
                        before |-> call.currentReview,
                        stored |-> reviews[call.id],
                        result |-> columns, error |-> "none"]
            /\ UNCHANGED <<now, reviewQueue, currentIndex, isReviewing,
                           showAnswer, showResults>>

NextOverlap ==
    \/ ReadReview
    \/ WriteReview

\* One card and calls of updateReviewAfterAnswer that may overlap.
SpecOverlap == InitCard /\ [][NextOverlap]_vars

\* The review view shows reviewQueue[currentIndex]; with currentIndex past
\* the end of the queue the render throws and no handler runs any more.
CardShown ==
    /\ isReviewing
    /\ currentIndex < Len(reviewQueue)

\* handleSubmitAnswer and handleSkip: the answer is shown.  Both are offered
\* while it is hidden.
ShowAnswer ==
    /\ CardShown
    /\ ~showResults
    /\ ~showAnswer
    /\ showAnswer' = TRUE
    /\ last' = NoCall
    /\ UNCHANGED <<reviews, now, reviewQueue, currentIndex, isReviewing,
                   showResults, inFlight>>

\* A handler runs up to its await: it has taken reviewQueue and
\* currentIndex from the render it belongs to.
HandlerCall(op, quality) ==
    [op |-> op, quality |-> quality, index |-> currentIndex,
     card |-> reviewQueue[currentIndex + 1].id, length |-> Len(reviewQueue)]

HandlerIssued(call) ==
    /\ Len(inFlight) < 2
    /\ inFlight' = Append(inFlight, call)
    /\ last' = NoCall
    /\ UNCHANGED <<reviews, now, reviewQueue, currentIndex, isReviewing,
                   showAnswer, showResults>>

\* After the await: move to the next card, or show the results.
HandlerCompleted(k) ==
    LET call == inFlight[k]
    IN  /\ IF call.index < call.length - 1
           THEN /\ currentIndex' = currentIndex + 1
                /\ showAnswer' = FALSE
                /\ UNCHANGED showResults
           ELSE /\ showResults' = TRUE
                /\ UNCHANGED <<currentIndex, showAnswer>>
        /\ inFlight' = SubSeq(inFlight, 1, k - 1)
                           \o SubSeq(inFlight, k + 1, Len(inFlight))
        /\ last' = [op |-> call.op, quality |-> call.quality,
                    index |-> call.index, card |-> call.card,
                    indexBefore |-> currentIndex,
                    resultsBefore |-> showResults]
        /\ UNCHANGED <<now, reviewQueue, isReviewing>>

\* handleQualitySelect, called by a grade button (in the review view, with
\* the answer shown) or by a key (a, s, d, space, f: the listener tests
\* isReviewing and showAnswer).
QualitySelectIssued ==
    \E quality \in SimpleQuality, source \in {"button", "key"} :
        /\ CardShown
        /\ showAnswer
        /\ source = "button" => ~showResults
        /\ SumReviewed(DOMAIN reviews) + Len(inFlight) < MaxUpdates
        /\ HandlerIssued(HandlerCall("handleQualitySelect", quality))

QualitySelectCompleted ==
    \E k \in DOMAIN inFlight :
        /\ inFlight[k].op = "handleQualitySelect"
        /\ reviews' = [reviews EXCEPT ![inFlight[k].card] =
                          RowUpdate(@, ReviewColumns(@, inFlight[k].quality, now))]
        /\ HandlerCompleted(k)

\* handleSuspendWord, called by the suspend button or by the key n.
SuspendWordIssued ==
    \E source \in {"button", "key"} :
        /\ CardShown
        /\ showAnswer
        /\ source = "button" => ~showResults
        /\ HandlerIssued(HandlerCall("handleSuspendWord", "none"))

SuspendWordCompleted ==
    \E k \in DOMAIN inFlight :
        /\ inFlight[k].op = "handleSuspendWord"
        /\ reviews' = [reviews EXCEPT ![inFlight[k].card].isSuspended = TRUE]
        /\ HandlerCompleted(k)

\* retrySession, offered by the results view.
retrySession ==
    /\ isReviewing
    /\ showResults
    /\ currentIndex' = 0
    /\ showAnswer' = FALSE
    /\ showResults' = FALSE
    /\ reviewQueue' \in Shuffles(reviewQueue)
    /\ last' = NoCall
    /\ UNCHANGED <<reviews, now, isReviewing, inFlight>>

RetrySession == retrySession

\* The component from the dashboard through its review sessions.
NextReview ==
    \/ CreateReview
    \/ StartSession
    \/ ShowAnswer
    \/ QualitySelectIssued
    \/ QualitySelectCompleted
    \/ SuspendWordIssued
    \/ SuspendWordCompleted
    \/ RetrySession
    \/ CloseSession

SpecReview == Init /\ [][NextReview]_vars

\* Any card of the table is graded: up to MaxReviews grades in all.
GradeAny ==
    \E id \in CardIds, quality \in SimpleQuality :
        /\ SumReviewed(DOMAIN reviews) < MaxReviews
        /\ updateReviewAfterAnswer(id, quality)

\* loadStats: the dashboard asks for the statistics.
LoadStats ==
    /\ last' = [op |-> "getReviewStats", result |-> getReviewStats]
    /\ UNCHANGED <<reviews, now, session>>

\* The table under creation, grades and suspend toggles, and the statistics
\* of the dashboard.
NextStats ==
    \/ CreateReview
    \/ GradeAny
    \/ SuspendReview
    \/ LoadStats

SpecStats == Init /\ [][NextStats]_vars

(* ------------------------------ claims --------------------------------- *)

Updated == last.op = "updateReviewAfterAnswer" /\ last.error = "none"

Success == last.quality \in {"hard", "good", "easy"}

\* C1: in every state reached from a newly created record by graded updates,
\* the stored easeFactor is at least 1.3 and the stored interval is at least 0.
C1_EaseFloorIntervalNonNegative ==
    \A id \in DOMAIN reviews :
        /\ reviews[id].easeFactor >= MIN_EASE_FACTOR
        /\ reviews[id].interval >= 0

\* C1 witness: a grade of again met the floor (the formula alone gave less).
C1_Witness ==
    /\ Updated
    /\ last.quality = "again"
    /\ last.before.easeFactor - 54 < MIN_EASE_FACTOR
    /\ reviews[last.id].easeFactor = MIN_EASE_FACTOR

\* C2: a grade of again stores repetitions 0 and interval 1 whatever the
\* record was; hard, good and easy store the prior repetitions plus one; the
\* stored repetitions are 0 exactly when the grade was again.
C2_RepetitionsResetOnFailure ==
    Updated =>
        /\ last.quality = "again" =>
              /\ reviews[last.id].repetitions = 0
              /\ reviews[last.id].interval = 1
        /\ Success =>
              reviews[last.id].repetitions = last.before.repetitions + 1
        /\ reviews[last.id].repetitions = 0 <=> last.quality = "again"

\* C2 witness: a card with a streak and a long interval was graded again.
C2_Witness ==
    /\ Updated
    /\ last.quality = "again"
    /\ last.before.repetitions >= 3
    /\ last.before.interval > 6
    /\ reviews[last.id].repetitions = 0

\* C3: a successful grade gives interval 1 on prior repetitions 0 and
\* interval 6 on prior repetitions 1, whatever the prior interval and ease.
C3_FirstAndSecondInterval ==
    (Updated /\ Success) =>
        /\ last.before.repetitions = 0 => reviews[last.id].interval = 1
        /\ last.before.repetitions = 1 => reviews[last.id].interval = 6

\* C3 witness: the second success of a card whose ease is no longer 2.5.
C3_Witness ==
    /\ Updated /\ Success
    /\ last.before.repetitions = 1
    /\ last.before.easeFactor < DEFAULT_EASE_FACTOR
    /\ reviews[last.id].interval = 6

C5_Witness20 ==
    /\ Updated
    /\ last.result.interval = 20
    /\ ~last.result.isMastered

\* The change of ease the claim gives for each grade, in hundredths.
C6_Delta(quality) ==
    CASE quality = "easy" -> 10
      [] quality = "good" -> 0
      [] quality = "hard" -> -14
      [] quality = "again" -> -54

\* C6: every grade, again included, moves the ease by +0.10 (easy), 0.00
\* (good), -0.14 (hard) or -0.54 (again), and the result is the larger of 1.3
\* and that value.
C6_EaseDeltaEveryGrade ==
    Updated =>
        LET raw == last.before.easeFactor + C6_Delta(last.quality)
        IN  reviews[last.id].easeFactor =
                IF raw >= MIN_EASE_FACTOR THEN raw ELSE MIN_EASE_FACTOR

\* C6 witness: a failing grade lowered the ease by 0.54, no floor involved.
C6_Witness ==
    /\ Updated
    /\ last.quality = "again"
    /\ reviews[last.id].easeFactor = last.before.easeFactor - 54
    /\ reviews[last.id].easeFactor > MIN_EASE_FACTOR

\* C7: again maps to 1, hard to 3, good to 4 and easy to 5, so a graded
\* update from the four grades never computes with quality 0 or 2.
C7_QualityMapping ==
    last.op = "updateReviewAfterAnswer" =>
        /\ last.quality = "again" => last.sm2Quality = 1
        /\ last.quality = "hard" => last.sm2Quality = 3
        /\ last.quality = "good" => last.sm2Quality = 4
        /\ last.quality = "easy" => last.sm2Quality = 5
        /\ last.sm2Quality \in {1, 3, 4, 5}

\* C7 witness: a grade of hard was mapped, after other grades.
C7_Witness ==
    /\ last.op = "updateReviewAfterAnswer"
    /\ last.quality = "hard"
    /\ last.sm2Quality = 3
    /\ last.before.incorrectCount > 0

C9_DuePoolQuery ==
    /\ last.op = "fetchDueReviews" =>
          /\ \A i \in DOMAIN last.result :
                /\ last.result[i] = reviews[last.result[i].id]
                /\ last.result[i].isSuspended = FALSE
                /\ last.result[i].repetitions > 0
                /\ last.result[i].nextReviewDate <= now
          /\ \A i, j \in DOMAIN last.result :
                i < j =>
                    /\ last.result[i].id # last.result[j].id
                    /\ last.result[i].nextReviewDate
                           <= last.result[j].nextReviewDate
          /\ last.limit > 0 => Len(last.result) <= last.limit
    /\ (last.op = "fetchNewWordsForReview" /\ last.limit = 0) =>
          \A id \in DOMAIN reviews :
              (reviews[id].repetitions = 0 /\ ~reviews[id].isSuspended) =>
                  \E i \in DOMAIN last.result : last.result[i].id = id

\* C9 witness: the query returned a due card while a card never reviewed,
\* not suspended and dated before today stayed out of its result.
C9_Witness ==
    /\ last.op = "fetchDueReviews"
    /\ Len(last.result) > 0
    /\ \E id \in DOMAIN reviews :
          /\ reviews[id].repetitions = 0
          /\ reviews[id].lastReviewDate = NoDate
          /\ ~reviews[id].isSuspended
          /\ reviews[id].nextReviewDate < now
          /\ \A i \in DOMAIN last.result : last.result[i].id # id

\* C9: two due cards with different dates came back, the earlier one first
\* (reached as well).
C9_WitnessOrder ==
    /\ last.op = "fetchDueReviews"
    /\ Len(last.result) = 2
    /\ last.result[1].nextReviewDate < last.result[2].nextReviewDate

C10_WitnessTruncated ==
    /\ last.op = "startSession"
    /\ Cardinality(DueIds) + Cardinality(NewIds) > last.sessionSize
    /\ Len(reviewQueue) = last.sessionSize

C11_OnePoolIncluded ==
    (last.op = "startSession" /\ (last.includeDue \/ last.includeNew)) =>
        /\ Len(last.addedDue) + Len(last.addedNew)
               <= last.sessionSize - Len(last.accumulated)
        /\ Len(last.combined) <= last.sessionSize

\* The places of a list of rows that hold a row of the given pool.
C12_DuePlaces(rows) == {i \in DOMAIN rows : rows[i].repetitions > 0}
C12_NewPlaces(rows) == {i \in DOMAIN rows : rows[i].repetitions = 0}

C12_WitnessTopUp ==
    /\ last.op = "startSession"
    /\ last.includeDue /\ last.includeNew
    /\ last.sessionSize = 2
    /\ Cardinality(C12_DuePlaces(last.combined)) = 1
    /\ Cardinality(C12_NewPlaces(last.combined)) = 1

\* C12: the session of 1 took the older of two new cards, the younger one
\* stayed out (reached as well).
C12_WitnessOldestNew ==
    /\ last.op = "startSession"
    /\ last.includeDue
    /\ Len(last.combined) = 1
    /\ \E id \in NewIds : reviews[id].createdAt > last.combined[1].createdAt

\* C13: startSession raises the 'No cards available' alert exactly when the
\* set it selected is empty; it then starts no session (reviewQueue,
\* currentIndex and isReviewing keep their values) and changes no row; when
\* it does not alert, the session starts on the selected cards.
C13_NoCardsAvailable ==
    [][ last'.op = "startSession" =>
            /\ last'.alerted <=> Len(last'.cards) = 0
            /\ reviews' = reviews
            /\ last'.alerted =>
                  /\ reviewQueue' = reviewQueue
                  /\ currentIndex' = currentIndex
                  /\ isReviewing' = isReviewing
            /\ ~last'.alerted =>
                  /\ reviewQueue' = last'.cards
                  /\ isReviewing'
      ]_vars

\* C13 witness: the alert was raised on a table that holds cards, none of
\* which qualifies (each is suspended or not yet due), and no session runs.
C13_Witness ==
    /\ last.op = "startSession"
    /\ last.alerted
    /\ DOMAIN reviews # {}
    /\ ~isReviewing
    /\ reviewQueue = <<>>

\* A card that was never answered, as the claim means it.
C14_New(card) == card.repetitions = 0 /\ card.lastReviewDate = NoDate

C14_WitnessSameDay ==
    /\ last.op = "sortByReviewPriority"
    /\ Len(last.input) = 2
    /\ ~C14_New(last.input[1]) /\ ~C14_New(last.input[2])
    /\ last.input[1].nextReviewDate = last.input[2].nextReviewDate
    /\ last.input[1].nextReviewHour < last.input[2].nextReviewHour
    /\ last.input[1].easeFactor > last.input[2].easeFactor
    /\ last.result[1] = last.input[2]

\* C15: previewIntervals leaves the record it is given as it was and writes
\* nothing; it returns exactly the four entries again, hard, good and easy;
\* and each entry is the description of the interval the update computes for
\* that grade on the same record (the grade given next stores that interval).
C15_PreviewIntervals ==
    [][ /\ last'.op = "previewIntervals" =>
              /\ DOMAIN last'.result = SimpleQuality
              /\ last'.input = reviews[1]
              /\ reviews' = reviews
        /\ ( /\ last.op = "previewIntervals"
             /\ last'.op = "updateReviewAfterAnswer" ) =>
              /\ last'.before = last.input
              /\ last.result[last'.quality]
                     = getIntervalDescription(last'.result.interval)
              /\ reviews'[1].interval = last'.result.interval
      ]_vars

\* C15 witness: the card {2.5, 6, 2} is previewed; its four entries are
\* 1 day, 2 weeks (14 days), 2 weeks (15 days) and 2 weeks (16 days).
C15_Witness ==
    /\ last.op = "previewIntervals"
    /\ last.input.interval = 6 /\ last.input.repetitions = 2
    /\ last.input.easeFactor = 250
    /\ last.result["again"] = [count |-> 1, unit |-> "day"]
    /\ last.result["hard"] = [count |-> 2, unit |-> "weeks"]
    /\ last.result["good"] = [count |-> 2, unit |-> "weeks"]
    /\ last.result["easy"] = [count |-> 2, unit |-> "weeks"]
    /\ reviews[1] = last.input

\* C15: a preview of 1 month was followed by the grade that stores the 38
\* days it describes (reached as well).
C15_WitnessGraded ==
    /\ Updated
    /\ last.before.interval = 15
    /\ reviews[1].interval = 38
    /\ previewIntervals(last.before, now)[last.quality]
           = [count |-> 1, unit |-> "month"]

\* C16: only the suspend operation changes isSuspended.  A graded update
\* leaves isSuspended, createdAt, term and definition of every row as they
\* were, and a step that changes isSuspended of a row (suspendWord) changes
\* nothing else of it: easeFactor, interval, repetitions, nextReviewDate,
\* isMastered and both counters stay.
C16_SuspendFrame ==
    [][ \A id \in DOMAIN reviews :
          /\ last'.op = "updateReviewAfterAnswer" =>
                /\ reviews'[id].isSuspended = reviews[id].isSuspended
                /\ reviews'[id].createdAt = reviews[id].createdAt
                /\ reviews'[id].term = reviews[id].term
                /\ reviews'[id].definition = reviews[id].definition
          /\ reviews'[id].isSuspended # reviews[id].isSuspended =>
                /\ last'.op # "updateReviewAfterAnswer"
                /\ reviews' = [reviews EXCEPT
                                  ![id].isSuspended = ~reviews[id].isSuspended]
      ]_vars

\* C16 witness: a card that was answered (its counters and ease have moved)
\* is suspended, with those values as the update left them.
C16_Witness ==
    \E id \in DOMAIN reviews :
        /\ reviews[id].isSuspended
        /\ reviews[id].correctCount = 1
        /\ reviews[id].repetitions = 1
        /\ reviews[id].interval = 1
        /\ last.op = "none"

\* C16: a suspended card was graded and is still suspended (reached as
\* well).
C16_WitnessGraded ==
    /\ Updated
    /\ last.before.isSuspended
    /\ reviews[last.id].isSuspended
    /\ reviews[last.id].repetitions = 1

\* C17: after every graded update the stored nextReviewDate is the start of
\* the day that lies exactly interval' days after the current day, interval'
\* being the interval that update returned and stored; so it is at least one
\* day ahead.
C17_NextReviewDate ==
    Updated =>
        /\ reviews[last.id].interval = last.result.interval
        /\ reviews[last.id].nextReviewDate = now + reviews[last.id].interval
        /\ reviews[last.id].nextReviewDate >= now + 1
        /\ reviews[last.id].lastReviewDate = now

\* C17 witness: on day 2 a card got an interval of 6 days and is next due on
\* day 8.
C17_Witness ==
    /\ Updated
    /\ now = 2
    /\ reviews[last.id].interval = 6
    /\ reviews[last.id].nextReviewDate = 8

\* C18: every completed graded update adds one to exactly one counter:
\* to correctCount when the mapped quality is 3 or more (hard, good, easy),
\* to incorrectCount otherwise (again); the other counter stays, so the sum
\* of the two grows by one with each update.
C18_CountersIncrement ==
    Updated =>
        LET before == last.before
            after == reviews[last.id]
        IN  /\ last.quality \in {"hard", "good", "easy"} =>
                  /\ last.sm2Quality >= 3
                  /\ after.correctCount = before.correctCount + 1
                  /\ after.incorrectCount = before.incorrectCount
            /\ last.quality = "again" =>
                  /\ last.sm2Quality < 3
                  /\ after.incorrectCount = before.incorrectCount + 1
                  /\ after.correctCount = before.correctCount
            /\ after.correctCount + after.incorrectCount
                   = before.correctCount + before.incorrectCount + 1

\* C18 witness: a grade of hard on a card with failures and successes behind
\* it counted as correct.
C18_Witness ==
    /\ Updated
    /\ last.quality = "hard"
    /\ last.before.correctCount >= 1
    /\ last.before.incorrectCount >= 1
    /\ reviews[last.id].correctCount = last.before.correctCount + 1
    /\ reviews[last.id].incorrectCount = last.before.incorrectCount

\* count is n / d rounded to the nearest whole number, a half going up.
C19_Rounded(n, d, count) ==
    /\ 2 * d * count - d <= 2 * n
    /\ 2 * n < 2 * d * count + d

\* C19: getIntervalDescription gives "New" for 0, "1 day" for 1, "N days"
\* for 2..6, round(N/7) weeks for 7..29, round(N/30) months for 30..364 and
\* round(N/365) years from 365 on, with the singular word exactly when the
\* rounded count is 1.
C19_IntervalDescription ==
    last.op = "getIntervalDescription" =>
        LET n == last.intervalDays
            count == last.result.count
            unit == last.result.unit
        IN  /\ n = 0 => (count = 0 /\ unit = "New")
            /\ n = 1 => (count = 1 /\ unit = "day")
            /\ (2 <= n /\ n <= 6) => (count = n /\ unit = "days")
            /\ (7 <= n /\ n <= 29) =>
                  /\ C19_Rounded(n, 7, count)
                  /\ unit = IF count = 1 THEN "week" ELSE "weeks"
            /\ (30 <= n /\ n <= 364) =>
                  /\ C19_Rounded(n, 30, count)
                  /\ unit = IF count = 1 THEN "month" ELSE "months"
            /\ n >= 365 =>
                  /\ C19_Rounded(n, 365, count)
                  /\ unit = IF count = 1 THEN "year" ELSE "years"

\* C19 witness: 45 days are 1.5 months, described as "2 months".
C19_Witness ==
    /\ last.op = "getIntervalDescription"
    /\ last.intervalDays = 45
    /\ last.result = [count |-> 2, unit |-> "months"]

\* C19: 10 days are "1 week", 364 days "12 months", 365 days "1 year" and
\* 548 days "2 years" (each reached as well).
C19_Witness10 ==
    /\ last.op = "getIntervalDescription"
    /\ last.intervalDays = 10
    /\ last.result = [count |-> 1, unit |-> "week"]

C19_Witness364 ==
    /\ last.op = "getIntervalDescription"
    /\ last.intervalDays = 364
    /\ last.result = [count |-> 12, unit |-> "months"]

C19_Witness365 ==
    /\ last.op = "getIntervalDescription"
    /\ last.intervalDays = 365
    /\ last.result = [count |-> 1, unit |-> "year"]

C19_Witness548 ==
    /\ last.op = "getIntervalDescription"
    /\ last.intervalDays = 548
    /\ last.result = [count |-> 2, unit |-> "years"]

\* C20: every card the new-pool query returns is a new card: not suspended,
\* with repetitions 0 and never answered (no lastReviewDate), in every state
\* reached by creating, grading and suspending cards.  A card that was
\* answered and failed breaks it.
C20_NewPoolNeverAnswered ==
    last.op = "fetchNewWordsForReview" =>
        \A i \in DOMAIN last.result :
            /\ last.result[i] = reviews[last.result[i].id]
            /\ ~last.result[i].isSuspended
            /\ last.result[i].repetitions = 0
            /\ last.result[i].lastReviewDate = NoDate
            /\ isNewCard(last.result[i])

\* C20: what the query does guarantee: its rows are not suspended and have
\* repetitions 0 (this part holds).
C20_NewPoolFilters ==
    last.op = "fetchNewWordsForReview" =>
        \A i \in DOMAIN last.result :
            /\ last.result[i] = reviews[last.result[i].id]
            /\ ~last.result[i].isSuspended
            /\ last.result[i].repetitions = 0

\* C21: a card graded again is reviewed again in 1 day: no session that
\* startSession builds on the day of that grade holds the card (a row with
\* repetitions 0 whose lastReviewDate is today was graded again today, and
\* its nextReviewDate is tomorrow).  The new pool breaks it.
C21_FailedCardWaitsOneDay ==
    last.op = "startSession" =>
        \A i \in DOMAIN last.cards :
            LET row == reviews[last.cards[i].id]
            IN  ~( /\ row.repetitions = 0
                   /\ row.lastReviewDate = now
                   /\ row.nextReviewDate > now )

\* C21: what does hold: the due pool never offers the failed card before
\* its nextReviewDate.
C21_FailedCardNotDue ==
    \A id \in DOMAIN reviews :
        (reviews[id].lastReviewDate = now /\ reviews[id].repetitions = 0)
            => id \notin DueIds

\* The categories of the claim: 1 overdue, 2 due today, 3 new; 0 for a card
\* that is none of them (answered, and dated after today).
C22_Category(card) ==
    IF C14_New(card) THEN 3
    ELSE IF card.nextReviewDate < now THEN 1
    ELSE IF card.nextReviewDate = now THEN 2
    ELSE 0

\* C22: sortByReviewPriority puts overdue cards before cards due today and
\* those before new cards, and within each of the three categories the card
\* with the lower ease factor first.  Two overdue cards of different days
\* break it.
C22_CategoriesThenEase ==
    last.op = "sortByReviewPriority" =>
        \A i, j \in DOMAIN last.result :
            LET a == last.result[i]
                b == last.result[j]
            IN  (i < j /\ C22_Category(a) # 0 /\ C22_Category(b) # 0) =>
                    /\ C22_Category(a) <= C22_Category(b)
                    /\ C22_Category(a) = C22_Category(b)
                           => a.easeFactor <= b.easeFactor

\* C22: the order of the categories alone (this part holds).
C22_CategoriesOnly ==
    last.op = "sortByReviewPriority" =>
        \A i, j \in DOMAIN last.result :
            LET a == last.result[i]
                b == last.result[j]
            IN  (i < j /\ C22_Category(a) # 0 /\ C22_Category(b) # 0) =>
                    C22_Category(a) <= C22_Category(b)

\* C23: in every state reached from a newly created record by graded updates
\* and suspend toggles, a mastered card has repetitions >= 3 and an interval
\* >= 21; a card with repetitions 0 has interval 0 or 1, with repetitions 1
\* interval 1, with repetitions 2 interval 6, and none of these is mastered.
C23_MasteredNeedsThreeSuccesses ==
    LET row == reviews[1]
    IN  /\ row.isMastered =>
              row.repetitions >= 3 /\ row.interval >= MASTERY_INTERVAL_THRESHOLD
        /\ row.repetitions = 0 => row.interval \in {0, 1} /\ ~row.isMastered
        /\ row.repetitions = 1 => row.interval = 1 /\ ~row.isMastered
        /\ row.repetitions = 2 => row.interval = 6 /\ ~row.isMastered

\* A card mastered while suspended, after a failure along the way.
C23_Witness ==
    /\ reviews[1].isMastered
    /\ reviews[1].isSuspended
    /\ reviews[1].incorrectCount > 0

\* A card back at repetitions 2 after a failure, suspended and unsuspended.
C23_WitnessSecond ==
    /\ reviews[1].repetitions = 2
    /\ reviews[1].incorrectCount > 0
    /\ ~reviews[1].isSuspended
    /\ last = NoCall

\* C24: a successful grade (hard, good or easy) of a card with repetitions
\* >= 1 stores an interval strictly greater than the interval the card had,
\* whatever its ease factor, down to the floor of 1.3.
C24_IntervalGrowsOnSuccess ==
    (Updated /\ Success /\ last.before.repetitions >= 1) =>
        reviews[1].interval > last.before.interval

\* A card at the ease floor of 1.3, with two successes behind it, graded hard.
C24_Witness ==
    /\ Updated
    /\ last.quality = "hard"
    /\ last.before.repetitions >= 2
    /\ last.before.easeFactor = MIN_EASE_FACTOR
    /\ reviews[1].easeFactor = MIN_EASE_FACTOR

\* The second success: from interval 1 to interval 6.
C24_WitnessSecond ==
    /\ Updated /\ Success
    /\ last.before.repetitions = 1
    /\ last.before.interval = 1
    /\ reviews[1].interval = 6

\* C25: when every further review of a card is a success (hard, good or easy
\* in any mix), the card becomes mastered after finitely many reviews (seven
\* successes in a row are enough from any record) and a success never takes
\* the mastery away.
C25_SuccessLeadsToMastery ==
    /\ <>[](reviews[1].isMastered)
    /\ [](reviews[1].repetitions >= 7 => reviews[1].isMastered)
    /\ [][(reviews[1].isMastered /\ Updated' /\ Success')
              => reviews'[1].isMastered]_vars

\* A card that lapsed to the ease floor and is mastered by its seventh
\* success in a row, not before.
C25_Witness ==
    /\ Updated /\ Success
    /\ reviews[1].easeFactor = MIN_EASE_FACTOR
    /\ reviews[1].repetitions = 7
    /\ ~last.before.isMastered
    /\ reviews[1].isMastered

\* A mastered card graded successfully again.
C25_WitnessStays ==
    /\ Updated /\ Success
    /\ last.before.isMastered
    /\ reviews[1].isMastered

\* C26: a card graded successfully (hard, good or easy) today is, for the
\* rest of the day, in neither the due pool nor the new pool, and no pool
\* query or session of that day returns it.
C26_SuccessRestsForTheDay ==
    \A id \in DOMAIN reviews :
        (reviews[id].lastReviewDate = now /\ reviews[id].repetitions > 0) =>
            /\ id \notin DueIds
            /\ id \notin NewIds
            /\ last.op \in {"fetchDueReviews", "fetchNewWordsForReview"} =>
                  \A i \in DOMAIN last.result : last.result[i].id # id
            /\ last.op = "startSession" =>
                  \A i \in DOMAIN last.cards : last.cards[i].id # id

\* A session started on the day a card was graded successfully: it holds
\* another card, and the graded card, not suspended, stays out.
C26_Witness ==
    /\ last.op = "startSession"
    /\ Len(last.cards) > 0
    /\ \E id \in DOMAIN reviews :
          /\ reviews[id].lastReviewDate = now
          /\ reviews[id].repetitions > 0
          /\ ~reviews[id].isSuspended

\* The day after: the card graded yesterday with interval 1 is due.
C26_WitnessNextDay ==
    \E id \in DueIds :
        /\ reviews[id].lastReviewDate = now - 1
        /\ reviews[id].nextReviewDate = now

\* C27: a session built by startSession never holds the same card twice, also
\* when another actor grades or suspends a card between the due-pool read
\* and the new-pool read of the run.
C27_NoDuplicateInSession ==
    last.op = "startSession" =>
        \A i, j \in DOMAIN last.cards :
            i # j => last.cards[i].id # last.cards[j].id

\* C28: however two calls of updateReviewAfterAnswer on one card interleave
\* (each a read, then a write), the record stored afterwards is the two
\* grades applied one after the other: every write stores its grade applied
\* to the record as the write found it, and adds one to correctCount +
\* incorrectCount, so that two calls add two.
C28_NoLostUpdate ==
    Updated =>
        /\ reviews[last.id]
             = RowUpdate(last.stored,
                         ReviewColumns(last.stored, last.quality, now))
        /\ Reviewed(last.id)
             = last.stored.correctCount + last.stored.incorrectCount + 1

\* A call alone (its write finds the row its read returned) does store its
\* grade applied to the record.
C28_AloneIsApplied ==
    (Updated /\ last.stored = last.before) =>
        reviews[last.id]
            = RowUpdate(last.stored,
                        ReviewColumns(last.stored, last.quality, now))

\* C29: in a review session each queue position is graded at most once per
\* pass and currentIndex stays below the length of the queue: a grade (by
\* button or key) whose update completes is the grade of the card on show,
\* not of one already graded, and moves the index on by one card at most.
C29_GradedOncePerPass ==
    /\ (isReviewing /\ reviewQueue # <<>>) => currentIndex < Len(reviewQueue)
    /\ last.op = "handleQualitySelect" =>
          /\ last.index = last.indexBefore
          /\ ~last.resultsBefore
          /\ currentIndex <= last.index + 1

\* C30: the statistics partition the cards: newWords + learningWords +
\* masteredWords + suspendedWords = totalWords, whatever creations, graded
\* updates and suspend toggles came before.
C30_StatsPartition ==
    last.op = "getReviewStats" =>
        LET s == last.result
        IN  /\ s.totalWords = Cardinality(DOMAIN reviews)
            /\ s.newWords + s.learningWords + s.masteredWords
                   + s.suspendedWords = s.totalWords

\* Statistics with a mastered card next to a suspended one.
C30_Witness ==
    /\ last.op = "getReviewStats"
    /\ last.result.masteredWords = 1
    /\ last.result.suspendedWords = 1
    /\ last.result.totalWords = 2

\* Statistics with a mastered card that is suspended, and a new one.
C30_WitnessSuspendedMastered ==
    /\ last.op = "getReviewStats"
    /\ last.result.newWords = 1
    /\ last.result.masteredWords = 0
    /\ \E id \in DOMAIN reviews :
          reviews[id].isMastered /\ reviews[id].isSuspended

====
